---- MODULE Spec2Model ----
(***************************************************************************)
(* UDP tracker client (tracker/udp/udp_tracker.go).                        *)
(*                                                                         *)
(* One client value, driven by a single synchronous caller: Connect and    *)
(* Announce calls, the exchange engine client.request with its read loop,  *)
(* the backoff function timeout, and the wire decoding the calls perform.  *)
(* A datagram is the sequence of its bytes; an int64 connection id is kept *)
(* as its 8 big-endian bytes, an int32 as a signed integer.  Time is in    *)
(* seconds.  The transport may lose, delay, duplicate and reorder: at any  *)
(* read it may hand over a reply to the outstanding request, a reply to    *)
(* the request of any earlier call, or unrelated traffic.                  *)
(***************************************************************************)
EXTENDS Integers, Sequences, FiniteSets, TLC

VARIABLES
    contiguousTimeouts,     \* client.contiguousTimeouts
    connectionIdReceived,   \* client.connectionIdReceived (ZeroTime: never)
    connectionId,           \* client.connectionId, as 8 big-endian bytes
    socket,                 \* client.socket: "nil" or "open"
    reqURI,                 \* c.url.RequestURI(), as its length in bytes
    pc,                     \* "idle", "read" (inside request's loop), "panic"
    action,                 \* request's parameter action
    tid,                    \* request's local tid
    deadline,               \* the read deadline set on the socket
    now,                    \* time.Now()
    ret,                    \* what the call that has just returned gave back
    sent,                   \* the datagram of the outstanding request
    usedTids,               \* history: transaction ids of the earlier calls
    timeoutsSinceMatch,     \* history: calls ended by a read timeout since
                            \* the last matched datagram
    discarded,              \* history: datagrams the running call discarded
    skippedOwn,             \* history: the running call discarded a datagram
                            \* that carries its transaction id
    granted,                \* history: token and time of the last handshake
    tstate                  \* the step-by-step run of timeout (SpecTimeout)

vars == <<contiguousTimeouts, connectionIdReceived, connectionId, socket,
          reqURI, pc, action, tid, deadline, now, ret, sent, usedTids,
          timeoutsSinceMatch, discarded, skippedOwn, granted, tstate>>

(***************************************************************************)
(* Bounds of the model.                                                    *)
(***************************************************************************)
\* the clock stops after MaxTicks steps of the base timeout
MaxTicks == 8
\* a call discards at most MaxDiscards datagrams
MaxDiscards == 2
\* SpecBackoff: the clock stops after MaxBackoffTicks steps of the base
\* timeout (nine timeouts in a row take 511 of them)
MaxBackoffTicks == 512
\* the largest counter value timeout is run on in SpecTimeout
MaxCounter == 20

(***************************************************************************)
(* Constants of the program.                                               *)
(***************************************************************************)
Connect == 0
Announce == 1
Scrape == 2
Error == 3
optionTypeURLData == 2

\* time.Second, time.Minute, in seconds
Second == 1
Minute == 60
\* the zero time.Time
ZeroTime == 0

\* the connection id of a connect request, 0x41727101980
bootstrapConnectionId == <<0, 0, 4, 23, 39, 16, 25, 128>>
\* the zero value of client.connectionId
zeroConnectionId == <<0, 0, 0, 0, 0, 0, 0, 0>>

(***************************************************************************)
(* encoding/binary, big endian.                                            *)
(***************************************************************************)
Min(a, b) == IF a < b THEN a ELSE b

Pow2(n) == 2 ^ n

\* the 4 bytes of a number in 0 .. 2^31 - 1
BytesOfNat(y) ==
    << (y \div 16777216) % 256, (y \div 65536) % 256, (y \div 256) % 256, y % 256 >>

\* binary.Write of an int32: two's complement, big endian
PutInt32(x) ==
    IF x >= 0
    THEN BytesOfNat(x)
    ELSE [i \in 1..4 |-> 255 - BytesOfNat(-(x + 1))[i]]

\* binary.Read of an int32 from 4 bytes
GetInt32(b) ==
    IF b[1] < 128
    THEN b[1] * 16777216 + b[2] * 65536 + b[3] * 256 + b[4]
    ELSE -((255 - b[1]) * 16777216 + (255 - b[2]) * 65536
           + (255 - b[3]) * 256 + (255 - b[4])) - 1

\* binary.Read of a value of size bytes: io.EOF when nothing is left,
\* io.ErrUnexpectedEOF when fewer than size bytes are left
binaryRead(buf, size) ==
    IF Len(buf) = 0 THEN [err |-> "EOF", val |-> <<>>, rest |-> buf]
    ELSE IF Len(buf) < size
         THEN [err |-> "ErrUnexpectedEOF", val |-> <<>>, rest |-> <<>>]
         ELSE [err |-> "nil", val |-> SubSeq(buf, 1, size),
               rest |-> SubSeq(buf, size + 1, Len(buf))]

\* a response datagram: ResponseHeader{Action, TransactionId}, then the body
Datagram(act, t, body) == PutInt32(act) \o PutInt32(t) \o body

(***************************************************************************)
(* What the transport and the tracker may produce.                         *)
(***************************************************************************)
\* the values newTransactionId returns
TIDs == {1, -2}
\* a transaction id no request carries (traffic of another party)
StrangerTids == {7}
\* the instants a caller or a blocked read lets pass: one base timeout
TickLen == 15 * Second
\* the time at which the client is constructed (never the zero time)
StartTime == 1
MaxTime == StartTime + MaxTicks * TickLen
\* how long a read blocks before a datagram comes in
Delays == {0, TickLen}
\* the lengths of c.url.RequestURI()
PathLens == {3, 256}

Token1 == <<17, 34, 51, 68, 85, 102, 119, 136>>
Token2 == <<0, 0, 0, 0, 0, 0, 0, 42>>
announceHeaderBytes == PutInt32(1800) \o PutInt32(2) \o PutInt32(5)
peerBytes == <<10, 0, 0, 1, 26, 225>>
junkBytes == <<114, 108, 33>>

\* what a response datagram may carry: its header's action and its body
Replies ==
    { <<Connect, <<>>>>, <<Connect, junkBytes>>,
      <<Connect, Token1>>, <<Connect, Token2>>,
      <<Announce, Token2>>, <<Announce, announceHeaderBytes>>,
      <<Announce, announceHeaderBytes \o peerBytes \o peerBytes>>,
      <<Announce, announceHeaderBytes \o peerBytes \o junkBytes>>,
      <<Error, junkBytes>> }

\* the datagrams a read may return, each with where it comes from:
\* "cur"  a reply of the tracker to the outstanding request,
\* "old"  a reply of the tracker to the request of an earlier call,
\* "noise" anything else that reaches the socket
Inbound ==
    { [data |-> Datagram(r[1], tid, r[2]), re |-> "cur"] : r \in Replies }
    \cup { [data |-> Datagram(r[1], t, r[2]), re |-> "old"] :
               r \in Replies, t \in usedTids }
    \cup { [data |-> Datagram(Connect, t, Token1), re |-> "noise"] :
               t \in StrangerTids }
    \cup { [data |-> d, re |-> "noise"] : d \in {<<>>, junkBytes} }

(***************************************************************************)
(* The client.                                                             *)
(***************************************************************************)
RECURSIVE double(_, _)
double(d, n) == IF n > 0 THEN double(d * 2, n - 1) ELSE d

\* a variant without the cap of lines 78-80
timeout_nocap(n) == double(15 * Second, n)

\* func timeout(contiguousTimeouts int) time.Duration, in seconds
timeout(n) == double(15 * Second, IF n > 8 THEN 8 ELSE n)

\* line 242: !received.IsZero() && t.Before(received.Add(time.Minute))
receivedWithinMinute(received, t) ==
    /\ received # ZeroTime
    /\ t < received + Minute

\* a variant that still accepts a token exactly one minute old
connectedAt_inclusive(t) ==
    /\ connectionIdReceived # ZeroTime
    /\ t <= connectionIdReceived + Minute

\* func (c *client) connected() bool, at time t
connectedAt(t) == receivedWithinMinute(connectionIdReceived, t)

connected == connectedAt(now)

\* nothing returned.  op, err, msg, body and peers are the call and its
\* results; history: re and dgram are the datagram request matched and where
\* it came from, tid the call's transaction id, before the counter when the
\* call began.
NoRet == [op |-> "none", err |-> "nil", msg |-> <<>>, body |-> <<>>,
          peers |-> 0, re |-> "none", dgram |-> <<>>, tid |-> 0, before |-> 0]

\* the fields of a datagram's ResponseHeader
hdrAction(data) == GetInt32(SubSeq(data, 1, 4))
hdrTransactionId(data) == GetInt32(SubSeq(data, 5, 8))

\* the action code a call requests
OpAction(op) == IF op = "Connect" THEN Connect ELSE Announce

NoSent == [any |-> FALSE, ConnectionId |-> zeroConnectionId, Action |-> Connect,
           TransactionId |-> 0, trailer |-> <<>>, at |-> ZeroTime]

NoGrant == [any |-> FALSE, token |-> zeroConnectionId, at |-> ZeroTime]

TIdle == [pc |-> "idle", n |-> 0, c |-> 0, d |-> 0]

Init ==
    /\ contiguousTimeouts = 0
    /\ connectionIdReceived = ZeroTime
    /\ connectionId = zeroConnectionId
    /\ socket = "nil"
    /\ reqURI \in PathLens
    /\ pc = "idle"
    /\ action = Connect
    /\ tid = 0
    /\ deadline = ZeroTime
    /\ now = StartTime
    /\ ret = NoRet
    /\ sent = NoSent
    /\ usedTids = {}
    /\ timeoutsSinceMatch = 0
    /\ discarded = 0
    /\ skippedOwn = FALSE
    /\ granted = NoGrant
    /\ tstate = TIdle

(***************************************************************************)
(* client.request: the send, and the state a call starts its read loop in. *)
(***************************************************************************)
\* the caller gets (res, err) back; request's frame is gone and the client
\* is idle again
Return(r) ==
    /\ ret' = r
    /\ pc' = "idle"
    /\ action' = Connect
    /\ tid' = 0
    /\ deadline' = ZeroTime
    /\ sent' = NoSent
    /\ discarded' = 0
    /\ skippedOwn' = FALSE

\* lines 186-196: draw the transaction id, write the datagram, set the read
\* deadline.  w is what socket.Write does: "ok", "err" (an error), "short"
\* (fewer bytes than given, no error); sock is the socket at that moment,
\* cid the connection id the header takes, options the trailer.
request(op, act, t, w, sock, cid, options) ==
    /\ UNCHANGED <<contiguousTimeouts, now, usedTids, timeoutsSinceMatch>>
    /\ IF sock = "nil" \/ w = "short"
       THEN \* a nil socket, or "write should send all or error": panic
            /\ pc' = "panic"
            /\ UNCHANGED <<ret, sent, deadline, action, tid, discarded,
                           skippedOwn>>
       ELSE IF w = "err"
       THEN Return([NoRet EXCEPT !.op = op, !.err = "write",
                                 !.before = contiguousTimeouts])
       ELSE /\ action' = act
            /\ tid' = t
            /\ sent' = [any |-> TRUE, ConnectionId |-> cid, Action |-> act,
                        TransactionId |-> t, trailer |-> options, at |-> now]
            /\ deadline' = now + timeout(contiguousTimeouts)
            /\ pc' = "read"
            /\ ret' = NoRet
            /\ discarded' = 0
            /\ skippedOwn' = FALSE

\* a variant that does not look for the Error action (lines 223-225)
requestRead_noError(data) ==
    LET h == binaryRead(data, 8)
    IN  IF h.err = "ErrUnexpectedEOF"
        THEN [next |-> "continue", matched |-> FALSE, err |-> "nil",
              msg |-> <<>>, responseBody |-> <<>>]
        ELSE IF h.err # "nil"
        THEN [next |-> "return", matched |-> FALSE, err |-> h.err,
              msg |-> <<>>, responseBody |-> <<>>]
        ELSE IF hdrTransactionId(h.val) # tid
        THEN [next |-> "continue", matched |-> FALSE, err |-> "nil",
              msg |-> <<>>, responseBody |-> <<>>]
        ELSE [next |-> "return", matched |-> TRUE, err |-> "nil",
              msg |-> <<>>, responseBody |-> h.rest]

\* lines 209-227: one datagram through the loop body
requestRead(data) ==
    LET h == binaryRead(data, 8)
        hAction == hdrAction(h.val)
        hTransactionId == hdrTransactionId(h.val)
    IN  IF h.err = "ErrUnexpectedEOF"
        THEN [next |-> "continue", matched |-> FALSE, err |-> "nil",
              msg |-> <<>>, responseBody |-> <<>>]
        ELSE IF h.err # "nil"
        THEN [next |-> "return", matched |-> FALSE, err |-> h.err,
              msg |-> <<>>, responseBody |-> <<>>]
        ELSE IF hTransactionId # tid
        THEN [next |-> "continue", matched |-> FALSE, err |-> "nil",
              msg |-> <<>>, responseBody |-> <<>>]
        ELSE [next |-> "return", matched |-> TRUE,
              err |-> IF hAction = Error THEN "tracker" ELSE "nil",
              msg |-> IF hAction = Error THEN h.rest ELSE <<>>,
              responseBody |-> h.rest]

(***************************************************************************)
(* What Connect and Announce do with what request returned.                *)
(***************************************************************************)
\* a variant that stores the token but not the time of its receipt
ConnectReturn_noTime(r, base) ==
    LET res == binaryRead(r.responseBody, 8)
    IN  IF r.err # "nil"
        THEN /\ Return([base EXCEPT !.err = r.err, !.msg = r.msg])
             /\ UNCHANGED <<connectionId, connectionIdReceived, granted>>
        ELSE IF res.err # "nil"
        THEN /\ Return([base EXCEPT !.err = res.err])
             /\ UNCHANGED <<connectionId, connectionIdReceived, granted>>
        ELSE /\ connectionId' = res.val
             /\ granted' = [any |-> TRUE, token |-> res.val, at |-> now']
             /\ UNCHANGED connectionIdReceived
             /\ Return(base)

\* a variant that notes the time of receipt before it decodes the body
ConnectReturn_early(r, base) ==
    LET res == binaryRead(r.responseBody, 8)
    IN  IF r.err # "nil"
        THEN /\ Return([base EXCEPT !.err = r.err, !.msg = r.msg])
             /\ UNCHANGED <<connectionId, connectionIdReceived, granted>>
        ELSE IF res.err # "nil"
        THEN /\ Return([base EXCEPT !.err = res.err])
             /\ connectionIdReceived' = now'
             /\ UNCHANGED <<connectionId, granted>>
        ELSE /\ connectionId' = res.val
             /\ connectionIdReceived' = now'
             /\ granted' = [any |-> TRUE, token |-> res.val, at |-> now']
             /\ Return(base)

\* lines 257-267
ConnectReturn(r, base) ==
    LET res == binaryRead(r.responseBody, 8)
    IN  IF r.err # "nil"
        THEN /\ Return([base EXCEPT !.err = r.err, !.msg = r.msg])
             /\ UNCHANGED <<connectionId, connectionIdReceived, granted>>
        ELSE IF res.err # "nil"
        THEN /\ Return([base EXCEPT !.err = res.err])
             /\ UNCHANGED <<connectionId, connectionIdReceived, granted>>
        ELSE /\ connectionId' = res.val
             /\ connectionIdReceived' = now'
             /\ granted' = [any |-> TRUE, token |-> res.val, at |-> now']
             /\ Return(base)

\* a variant that takes a cut-off last peer for the end of the list
readPeers_lenient(buf, n) == [err |-> "nil", peers |-> n + Len(buf) \div 6]

\* lines 129-144: peers are read until the buffer gives an error
RECURSIVE readPeers(_, _)
readPeers(buf, n) ==
    LET p == binaryRead(buf, 6)
    IN  IF p.err = "nil" THEN readPeers(p.rest, n + 1)
        ELSE IF p.err = "EOF" THEN [err |-> "nil", peers |-> n]
        ELSE [err |-> p.err, peers |-> n]

\* lines 114-145
AnnounceReturn(r, base) ==
    LET h == binaryRead(r.responseBody, 12)
        ps == readPeers(h.rest, 0)
    IN  /\ UNCHANGED <<connectionId, connectionIdReceived, granted>>
        /\ IF r.err # "nil"
           THEN Return([base EXCEPT !.err = r.err, !.msg = r.msg])
           ELSE IF h.err # "nil"
           THEN Return([base EXCEPT !.err = "parse"])
           ELSE Return([base EXCEPT !.err = ps.err, !.peers = ps.peers])

(***************************************************************************)
(* The calls.                                                              *)
(***************************************************************************)
\* a variant that never dials and sends on the socket as it finds it
client_Connect_nodial(t, w, dial) ==
    /\ pc = "idle"
    /\ UNCHANGED <<connectionIdReceived, reqURI, granted, tstate>>
    /\ IF connected
       THEN /\ Return([NoRet EXCEPT !.op = "Connect",
                                     !.before = contiguousTimeouts])
            /\ UNCHANGED <<contiguousTimeouts, connectionId, socket, now,
                           usedTids, timeoutsSinceMatch>>
       ELSE /\ connectionId' = bootstrapConnectionId
            /\ UNCHANGED socket
            /\ request("Connect", Connect, t, w, socket,
                       bootstrapConnectionId, <<>>)

\* a variant that starts a handshake whether or not a token is still valid
client_Connect_always(t, w, dial) ==
    /\ pc = "idle"
    /\ UNCHANGED <<connectionIdReceived, reqURI, granted, tstate>>
    /\ connectionId' = bootstrapConnectionId
    /\ socket' = "open"
    /\ request("Connect", Connect, t, w, "open", bootstrapConnectionId, <<>>)

\* func (c *client) Connect() error, up to the read loop of its request.
\* dial is what net.Dial does when the socket is still nil.
client_Connect(t, w, dial) ==
    /\ pc = "idle"
    /\ UNCHANGED <<connectionIdReceived, reqURI, granted, tstate>>
    /\ IF connected
       THEN /\ Return([NoRet EXCEPT !.op = "Connect",
                                     !.before = contiguousTimeouts])
            /\ UNCHANGED <<contiguousTimeouts, connectionId, socket, now,
                           usedTids, timeoutsSinceMatch>>
       ELSE /\ connectionId' = bootstrapConnectionId
            /\ IF socket = "nil" /\ dial = "err"
               THEN /\ Return([NoRet EXCEPT !.op = "Connect", !.err = "dial",
                                             !.before = contiguousTimeouts])
                    /\ UNCHANGED <<contiguousTimeouts, socket, now, usedTids,
                                   timeoutsSinceMatch>>
               ELSE /\ socket' = "open"
                    /\ request("Connect", Connect, t, w, "open",
                               bootstrapConnectionId, <<>>)

\* lines 109-112: the BEP 41 option that carries the request URI
urlDataOption(uriLen) ==
    [type |-> optionTypeURLData, length |-> uriLen % 256, bytes |-> uriLen]

\* a variant that announces without asking connected()
client_Announce_unchecked(t, w) ==
    /\ pc = "idle"
    /\ UNCHANGED <<connectionIdReceived, connectionId, socket, reqURI,
                   granted, tstate>>
    /\ request("Announce", Announce, t, w, socket, connectionId,
               urlDataOption(reqURI))

\* func (c *client) Announce(req), up to the read loop of its request
client_Announce(t, w) ==
    /\ pc = "idle"
    /\ UNCHANGED <<connectionIdReceived, connectionId, socket, reqURI,
                   granted, tstate>>
    /\ IF ~connected
       THEN /\ Return([NoRet EXCEPT !.op = "Announce",
                                    !.err = "ErrNotConnected",
                                    !.before = contiguousTimeouts])
            /\ UNCHANGED <<contiguousTimeouts, now, usedTids,
                           timeoutsSinceMatch>>
       ELSE request("Announce", Announce, t, w, socket, connectionId,
                    urlDataOption(reqURI))

\* a variant that leaves the counter alone on a match
countAfter_keep(r) == contiguousTimeouts

\* line 222: the counter once the loop body has run on a datagram
countAfter(r) == IF r.matched THEN 0 ELSE contiguousTimeouts

\* lines 199-228: socket.Read hands over a datagram after blocking for
\* delay, before the deadline; the loop body runs on it and, unless it
\* continues, the call returns into Connect or Announce
readDatagramBy(in, delay, limit) ==
    /\ pc = "read"
    /\ now + delay < deadline
    /\ now + delay <= limit
    /\ now' = now + delay
    /\ UNCHANGED <<socket, reqURI, tstate>>
    /\ LET r == requestRead(in.data)
           base == [NoRet EXCEPT
                      !.op = IF action = Connect THEN "Connect" ELSE "Announce",
                      !.tid = tid, !.before = contiguousTimeouts,
                      !.body = r.responseBody,
                      !.re = IF r.matched THEN in.re ELSE "none",
                      !.dgram = IF r.matched THEN in.data ELSE <<>>]
       IN  IF r.next = "continue"
           THEN /\ discarded < MaxDiscards
                /\ discarded' = discarded + 1
                /\ skippedOwn' =
                       (skippedOwn \/ (/\ Len(in.data) >= 8
                                       /\ hdrTransactionId(in.data) = tid))
                /\ UNCHANGED <<contiguousTimeouts, connectionIdReceived,
                               connectionId, pc, action, tid, deadline, ret,
                               sent, usedTids, timeoutsSinceMatch, granted>>
           ELSE /\ contiguousTimeouts' = countAfter(r)
                /\ timeoutsSinceMatch' =
                       IF Len(in.data) >= 8 /\ hdrTransactionId(in.data) = tid
                       THEN 0 ELSE timeoutsSinceMatch
                /\ usedTids' = usedTids \cup {tid}
                /\ IF action = Connect
                   THEN ConnectReturn(r, base)
                   ELSE AnnounceReturn(r, base)

readDatagram(in, delay) == readDatagramBy(in, delay, MaxTime)

\* lines 200-205: socket.Read reports the deadline; nothing was handed over
\* until then
readTimeoutBy(limit) ==
    /\ pc = "read"
    /\ deadline <= limit
    /\ now' = deadline
    /\ contiguousTimeouts' = contiguousTimeouts + 1
    /\ timeoutsSinceMatch' = timeoutsSinceMatch + 1
    /\ usedTids' = usedTids \cup {tid}
    /\ Return([NoRet EXCEPT !.op = IF action = Connect THEN "Connect"
                                   ELSE "Announce",
                            !.tid = tid, !.before = contiguousTimeouts,
                            !.err = "timeout"])
    /\ UNCHANGED <<connectionIdReceived, connectionId, socket, reqURI,
                   granted, tstate>>

readTimeout == readTimeoutBy(MaxTime)

\* a variant that counts every failed read as a timeout
readError_counted ==
    /\ pc = "read"
    /\ usedTids' = usedTids \cup {tid}
    /\ contiguousTimeouts' = contiguousTimeouts + 1
    /\ Return([NoRet EXCEPT !.op = IF action = Connect THEN "Connect"
                                   ELSE "Announce",
                            !.tid = tid, !.before = contiguousTimeouts,
                            !.err = "read"])
    /\ UNCHANGED <<connectionIdReceived, connectionId, socket, reqURI, now,
                   timeoutsSinceMatch, granted, tstate>>

\* lines 206-208: socket.Read fails with an error that is no timeout
readError ==
    /\ pc = "read"
    /\ usedTids' = usedTids \cup {tid}
    /\ Return([NoRet EXCEPT !.op = IF action = Connect THEN "Connect"
                                   ELSE "Announce",
                            !.tid = tid, !.before = contiguousTimeouts,
                            !.err = "read"])
    /\ UNCHANGED <<contiguousTimeouts, connectionIdReceived, connectionId,
                   socket, reqURI, now, timeoutsSinceMatch, granted, tstate>>

\* time passes between two calls; the caller has taken the last result
Tick ==
    /\ pc = "idle"
    /\ now + TickLen <= MaxTime
    /\ now' = now + TickLen
    /\ ret' = NoRet
    /\ UNCHANGED <<contiguousTimeouts, connectionIdReceived, connectionId,
                   socket, reqURI, pc, action, tid, deadline, sent,
                   usedTids, timeoutsSinceMatch, discarded, skippedOwn,
                   granted, tstate>>

WriteOutcomes == {"ok", "err", "short"}
DialOutcomes == {"ok", "err"}

Next ==
    \/ \E t \in TIDs, w \in WriteOutcomes, dial \in DialOutcomes :
           client_Connect(t, w, dial)
    \/ \E t \in TIDs, w \in WriteOutcomes : client_Announce(t, w)
    \/ \E in \in Inbound, delay \in Delays : readDatagram(in, delay)
    \/ readTimeout
    \/ readError
    \/ Tick

Spec == Init /\ [][Next]_vars

(***************************************************************************)
(* The same calls over a long time: no pause between two calls and no      *)
(* wait for a datagram, so that only read timeouts move the clock and the  *)
(* counter passes the cap of timeout.                                      *)
(***************************************************************************)
MaxBackoffTime == StartTime + MaxBackoffTicks * TickLen

\* every call draws the same transaction id
BackoffTids == {1}

\* the tracker answers the outstanding request at once and as asked, or
\* not at all
BackoffInbound ==
    { [data |-> Datagram(Connect, tid, Token1), re |-> "cur"],
      [data |-> Datagram(Announce, tid, announceHeaderBytes), re |-> "cur"] }

NextBackoff ==
    \/ \E t \in BackoffTids : client_Connect(t, "ok", "ok")
    \/ \E t \in BackoffTids : client_Announce(t, "ok")
    \/ \E in \in BackoffInbound : readDatagramBy(in, 0, MaxBackoffTime)
    \/ readTimeoutBy(MaxBackoffTime)

SpecBackoff == Init /\ [][NextBackoff]_vars

(***************************************************************************)
(* timeout, statement by statement (lines 77-86), on every counter value   *)
(* up to MaxCounter.                                                       *)
(***************************************************************************)
clientVars == <<contiguousTimeouts, connectionIdReceived, connectionId,
                socket, reqURI, pc, action, tid, deadline, now, ret, sent,
                usedTids, timeoutsSinceMatch, discarded, skippedOwn, granted>>

\* timeout(n) is called
timeout_call(n) ==
    /\ tstate.pc \in {"idle", "done"}
    /\ tstate' = [pc |-> "clamp", n |-> n, c |-> n, d |-> 0]
    /\ UNCHANGED clientVars

\* lines 78-81
timeout_clamp ==
    /\ tstate.pc = "clamp"
    /\ tstate' = [tstate EXCEPT !.pc = "loop",
                                !.c = IF tstate.c > 8 THEN 8 ELSE tstate.c,
                                !.d = 15 * Second]
    /\ UNCHANGED clientVars

\* lines 82-84
timeout_loop ==
    /\ tstate.pc = "loop"
    /\ tstate.c > 0
    /\ tstate' = [tstate EXCEPT !.c = tstate.c - 1, !.d = tstate.d * 2]
    /\ UNCHANGED clientVars

\* line 85
timeout_return ==
    /\ tstate.pc = "loop"
    /\ ~(tstate.c > 0)
    /\ tstate' = [tstate EXCEPT !.pc = "done"]
    /\ UNCHANGED clientVars

NextTimeout ==
    \/ \E n \in 0..MaxCounter : timeout_call(n)
    \/ timeout_clamp
    \/ timeout_loop
    \/ timeout_return

SpecTimeout == Init /\ [][NextTimeout]_vars

(***************************************************************************)
(* Calls under datagrams that never stop coming.  The loop may discard any *)
(* number of them; the socket's deadline is the clock's business, so a     *)
(* read that can report the deadline eventually does.  A call starts only  *)
(* when its deadline falls inside the time the model covers.               *)
(***************************************************************************)
\* a variant that sets the read deadline again after every datagram
readDiscard_rearm(in, delay) ==
    /\ pc = "read"
    /\ requestRead(in.data).next = "continue"
    /\ now + delay < deadline
    /\ now + delay <= MaxTime - TickLen
    /\ now' = now + delay
    /\ deadline' = now' + timeout(contiguousTimeouts)
    /\ discarded' = Min(discarded + 1, MaxDiscards)
    /\ skippedOwn' = (skippedOwn \/ (/\ Len(in.data) >= 8
                                     /\ hdrTransactionId(in.data) = tid))
    /\ UNCHANGED <<contiguousTimeouts, connectionIdReceived, connectionId,
                   socket, reqURI, pc, action, tid, ret, sent, usedTids,
                   timeoutsSinceMatch, granted, tstate>>

\* lines 197-221, the two continue branches: the datagram is dropped and
\* the loop reads again, under the deadline of line 195
readDiscard(in, delay) ==
    /\ pc = "read"
    /\ requestRead(in.data).next = "continue"
    /\ now + delay < deadline
    /\ now' = now + delay
    /\ discarded' = Min(discarded + 1, MaxDiscards)
    /\ skippedOwn' = (skippedOwn \/ (/\ Len(in.data) >= 8
                                     /\ hdrTransactionId(in.data) = tid))
    /\ UNCHANGED <<contiguousTimeouts, connectionIdReceived, connectionId,
                   socket, reqURI, pc, action, tid, deadline, ret, sent,
                   usedTids, timeoutsSinceMatch, granted, tstate>>

\* the deadline of a call that starts now lies within the model's time
DeadlineInTime == now + timeout(contiguousTimeouts) <= MaxTime

NextLive ==
    \/ \E t \in TIDs : DeadlineInTime /\ client_Connect(t, "ok", "ok")
    \/ \E t \in TIDs : DeadlineInTime /\ client_Announce(t, "ok")
    \/ \E in \in Inbound, delay \in Delays : readDiscard(in, delay)
    \/ \E in \in Inbound, delay \in Delays : readDatagram(in, delay)
    \/ readTimeout
    \/ readError
    \/ Tick

SpecLive == Init /\ [][NextLive]_vars /\ WF_vars(readTimeout)

(***************************************************************************)
(* The older copy of the client (src/unnamed/part_000).  newClient returns *)
(* &client{} and nothing ever sets its socket; write encodes the body      *)
(* without asking whether there is one.  Announce connects by itself.      *)
(***************************************************************************)
\* func (c *client) write(h, body), lines 114-132: "panic" when binary.Write
\* refuses the body (a nil body, lines 120-123) or the socket is nil (124)
old_write(body, sock) ==
    IF body = "nil" \/ sock = "nil" THEN "panic" ELSE "ok"

\* func (c *client) connect(), lines 191-199, as far as its request gets
old_connect ==
    IF receivedWithinMinute(connectionIdReceived, now)
    THEN [connectionId |-> connectionId, write |-> "none"]
    ELSE [connectionId |-> bootstrapConnectionId,
          write |-> old_write("nil", socket)]

\* func (c *client) Announce(req), lines 85-93, as far as it gets
old_Announce ==
    /\ pc = "idle"
    /\ LET c == old_connect
           w == IF c.write = "none" THEN old_write("req", socket) ELSE c.write
       IN  /\ connectionId' = c.connectionId
           /\ pc' = IF w = "panic" THEN "panic" ELSE "read"
    /\ UNCHANGED <<contiguousTimeouts, connectionIdReceived, socket, reqURI,
                   action, tid, deadline, now, ret, sent, usedTids,
                   timeoutsSinceMatch, discarded, skippedOwn, granted, tstate>>

SpecOld == Init /\ [][old_Announce]_vars

\* the older copy never gets as far as reading a datagram
OldNeverReads == pc # "read"

(***************************************************************************)
(* The claims.                                                             *)
(***************************************************************************)
\* a call that was inside request's read loop returns in this step
CallEnds == pc = "read" /\ pc' = "idle"

\* C1: no call returns, as its answer, a datagram the tracker sent in reply
\* to the request of an earlier call.
C1_NoAnswerFromEarlierCall == ret.re # "old"

\* C2: a call gets a response body and no error from request only out of a
\* datagram whose header carries the call's transaction id and the action
\* the call requested.
C2_AnswerHasTidAndAction ==
    (ret.re # "none" /\ hdrAction(ret.dgram) # Error)
        => /\ hdrTransactionId(ret.dgram) = ret.tid
           /\ hdrAction(ret.dgram) = OpAction(ret.op)

\* C3: a datagram with the call's transaction id never stays unanswered in
\* the loop, and when it carries the Error action the call, Connect or
\* Announce, fails with the tracker's error whose message is the bytes after
\* the header; no peer is decoded and no token or receipt time is stored.
C3_Step ==
    /\ ~skippedOwn'
    /\ (CallEnds /\ ret'.re # "none" /\ hdrAction(ret'.dgram) = Error)
           => /\ ret'.err = "tracker"
              /\ ret'.msg = SubSeq(ret'.dgram, 9, Len(ret'.dgram))
              /\ ret'.peers = 0
              /\ UNCHANGED <<connectionId, connectionIdReceived>>

C3_TrackerError == [][C3_Step]_vars

C3_Witness ==
    /\ ret.op = "Announce"
    /\ ret.re = "cur"
    /\ hdrAction(ret.dgram) = Error
    /\ ret.err = "tracker"
    /\ ret.msg = junkBytes

\* C4: a call ended by a read timeout leaves the counter one higher; no
\* other step raises the counter; a call ended by another error of the
\* socket (read, write, dial) leaves the counter as it was.
C4_Step ==
    /\ (CallEnds /\ ret'.err = "timeout")
           => contiguousTimeouts' = contiguousTimeouts + 1
    /\ (contiguousTimeouts' > contiguousTimeouts)
           => (CallEnds /\ ret'.err = "timeout")
    /\ (pc' = "idle" /\ ret' # ret /\ ret'.err \in {"read", "write", "dial"})
           => contiguousTimeouts' = contiguousTimeouts

C4_TimeoutCounts == [][C4_Step]_vars

C4_Witness ==
    /\ ret.err = "timeout"
    /\ ret.before = 1
    /\ contiguousTimeouts = 2

\* C5: after a call that ended with a matched datagram the counter is 0.
C5_MatchResets == (ret.re # "none") => contiguousTimeouts = 0

C5_Witness ==
    /\ ret.re # "none"
    /\ ret.before = 2
    /\ contiguousTimeouts = 0

\* C6: the read deadline of a call lies 15s * 2^min(k, 8) after its send,
\* k being the number of calls ended by a read timeout since the last
\* matched datagram (or since the client was made).
C6_Deadline ==
    (pc = "read")
        => deadline = sent.at + 15 * Second * Pow2(Min(timeoutsSinceMatch, 8))

C6_Witness ==
    /\ pc = "read"
    /\ granted.any
    /\ timeoutsSinceMatch = 9
    /\ deadline = sent.at + 3840 * Second

\* C7: timeout(n) is 15 seconds times 2^min(n, 8): 15s at 0, 3840s from 8 on.
C7_Timeout ==
    (tstate.pc = "done")
        => /\ tstate.d = 15 * Second * Pow2(Min(tstate.n, 8))
           /\ timeout(tstate.n) = tstate.d
           /\ (tstate.n = 0 => tstate.d = 15 * Second)
           /\ (tstate.n >= 8 => tstate.d = 3840 * Second)

C7_Witness ==
    /\ tstate.pc = "done"
    /\ tstate.n = 20
    /\ tstate.d = 3840 * Second

\* C8: at every time t from now on the client counts as connected exactly
\* when a handshake delivered a token at some T with T <= t < T + 60s.
C8_Connected ==
    \A t \in now..(MaxTime + Minute) :
        connectedAt(t) <=> /\ granted.any
                           /\ granted.at <= t
                           /\ t < granted.at + Minute

C8_Witness ==
    /\ granted.any
    /\ now = granted.at + Minute
    /\ ~connected
    /\ connectedAt(now - 1)

\* C9: an Announce request on the wire carries the token of the last
\* completed handshake, received less than 60s before the send, and not
\* the bootstrap constant.
C9_AnnounceToken ==
    (sent.any /\ sent.Action = Announce)
        => /\ granted.any
           /\ sent.ConnectionId = granted.token
           /\ granted.at <= sent.at
           /\ sent.at < granted.at + Minute
           /\ sent.ConnectionId # bootstrapConnectionId

C9_Witness ==
    /\ sent.any
    /\ sent.Action = Announce
    /\ sent.ConnectionId = Token2
    /\ sent.at = granted.at + 3 * TickLen

\* C10: Connect sends only from a client without a valid token, and what it
\* sends carries the bootstrap constant and the Connect action; a Connect
\* reply with the call's transaction id ends the call, and with an 8-byte
\* token V it makes V the cached token, now the receipt time, and the
\* client connected for the 60 seconds that follow.
C10_Step ==
    /\ (pc = "idle" /\ pc' = "read" /\ action' = Connect)
           => /\ ~connected
              /\ sent' = [any |-> TRUE,
                          ConnectionId |-> bootstrapConnectionId,
                          Action |-> Connect, TransactionId |-> tid',
                          trailer |-> <<>>, at |-> now']
    /\ ~skippedOwn'
    /\ (/\ CallEnds
        /\ action = Connect
        /\ ret'.re # "none"
        /\ hdrAction(ret'.dgram) = Connect
        /\ Len(ret'.body) = 8)
           => /\ ret'.err = "nil"
              /\ connectionId' = ret'.body
              /\ connectionIdReceived' = now'
              /\ \A t \in now'..(now' + Minute - 1) :
                     receivedWithinMinute(connectionIdReceived', t)
              /\ ~receivedWithinMinute(connectionIdReceived', now' + Minute)

C10_Handshake == [][C10_Step]_vars

C10_Witness ==
    /\ ret.op = "Connect"
    /\ ret.err = "nil"
    /\ ret.re = "cur"
    /\ ret.body = Token1
    /\ connectionId = Token1
    /\ connectionIdReceived = now
    /\ now > StartTime

\* C11: a Connect call that stored a token and its receipt time took them
\* from a datagram whose header carries the Connect action and the call's
\* transaction id.
C11_TokenOnlyFromConnectReply ==
    (ret.op = "Connect" /\ ret.err = "nil" /\ ret.re # "none")
        => /\ hdrTransactionId(ret.dgram) = ret.tid
           /\ hdrAction(ret.dgram) = Connect

\* C12: Announce on a client that is not connected (no handshake yet, or a
\* token 60s old or older) sends no request, returns the not-connected
\* error at once, and leaves the token, its receipt time, the counter and
\* the socket as they were.
C12_Step ==
    (pc = "idle" /\ ~connected)
        => /\ ~(pc' = "read" /\ action' = Announce)
           /\ (pc' = "idle" /\ ret'.op = "Announce")
                  => /\ ret'.err = "ErrNotConnected"
                     /\ ~sent'.any
                     /\ UNCHANGED <<connectionId, connectionIdReceived,
                                    contiguousTimeouts, socket, now>>

C12_StrictAnnounce == [][C12_Step]_vars

C12_Witness ==
    /\ ret.op = "Announce"
    /\ ret.err = "ErrNotConnected"
    /\ granted.any
    /\ now = granted.at + Minute
    /\ connectionId = granted.token

\* C13: an Announce call whose matched datagram carries the Announce action
\* and, after the header, a body of L >= 12 bytes returns (L - 12) / 6 peers
\* and no error when L - 12 is a multiple of 6 (no peer at all when L = 12),
\* and an error when it is not.
C13_PeerList ==
    (/\ ret.op = "Announce"
     /\ ret.re # "none"
     /\ hdrAction(ret.dgram) = Announce
     /\ Len(ret.body) >= 12)
        => /\ ret.body = SubSeq(ret.dgram, 9, Len(ret.dgram))
           /\ IF (Len(ret.body) - 12) % 6 = 0
              THEN /\ ret.err = "nil"
                   /\ ret.peers = (Len(ret.body) - 12) \div 6
              ELSE ret.err = "ErrUnexpectedEOF"

C13_Witness ==
    /\ ret.op = "Announce"
    /\ ret.re = "cur"
    /\ hdrAction(ret.dgram) = Announce
    /\ Len(ret.body) = 24
    /\ ret.err = "nil"
    /\ ret.peers = 2

\* C14: the trailer of an Announce request is the URL-data type byte, a
\* length byte L <= 255 and exactly L path bytes; of a longer path only the
\* first 255 bytes are sent.
C14_TrailerLength ==
    (sent.any /\ sent.Action = Announce)
        => /\ sent.trailer.type = optionTypeURLData
           /\ sent.trailer.length <= 255
           /\ sent.trailer.bytes = sent.trailer.length
           /\ sent.trailer.bytes = Min(reqURI, 255)

\* C15: a datagram too short for the 8-byte response header, the empty one
\* included, never ends a call: a call that matched no datagram ends by a
\* read timeout or an error of the transport, or made no exchange at all.
C15_ShortDatagramDiscarded ==
    (ret.op # "none" /\ ret.re = "none")
        => ret.err \in {"nil", "ErrNotConnected", "dial", "write", "read",
                        "timeout"}

\* C16: while a call reads, the deadline set after its send stays as it is
\* and the clock does not pass it inside the loop; and every call that
\* reads returns, however many datagrams it has to discard.
C16_Step ==
    /\ (pc = "read" /\ pc' = "read") => (deadline' = deadline /\ sent' = sent)
    /\ (pc = "read") => (deadline = sent.at + timeout(contiguousTimeouts)
                         /\ now' <= deadline)

C16_CallReturns ==
    /\ [][C16_Step]_vars
    /\ (pc = "read") ~> (pc = "idle")

C16_Witness ==
    /\ pc = "read"
    /\ discarded = MaxDiscards
    /\ contiguousTimeouts = 1
    /\ now = sent.at + TickLen
    /\ deadline = sent.at + 2 * TickLen

\* C17: Connect on a client whose token is less than 60s old starts no
\* request and opens no socket; it returns without an error and leaves the
\* token, its receipt time and the counter as they were.
C17_Step ==
    (pc = "idle" /\ connected)
        => /\ ~(pc' = "read" /\ action' = Connect)
           /\ socket' = socket
           /\ (pc' = "idle" /\ ret'.op = "Connect")
                  => /\ ret'.err = "nil"
                     /\ ret'.re = "none"
                     /\ ~sent'.any
                     /\ UNCHANGED <<connectionId, connectionIdReceived,
                                    contiguousTimeouts, now>>

C17_ConnectNoOp == [][C17_Step]_vars

C17_Witness ==
    /\ ret.op = "Connect"
    /\ ret.err = "nil"
    /\ ret.re = "none"
    /\ connected
    /\ now = granted.at + 3 * TickLen
    /\ connectionId = granted.token
    /\ connectionIdReceived = granted.at

\* C18: a socket that takes fewer bytes than the datagram has makes the
\* call return an error to its caller: the program is never stopped by a
\* panic of write on an open socket.
C18_ShortWriteIsError == ~(pc = "panic" /\ socket = "open")

\* C19: a Connect that returns an error (a timeout, an error of the socket,
\* an Error reply, a body of fewer than 8 bytes) leaves the receipt time as
\* it was, the bootstrap constant in the token field and the client not
\* connected; a connected client holds the token of its last handshake.
C19_Step ==
    /\ (pc' = "idle" /\ ret'.op = "Connect" /\ ret'.err # "nil")
           => /\ connectionIdReceived' = connectionIdReceived
              /\ connectionId' = bootstrapConnectionId
              /\ ~receivedWithinMinute(connectionIdReceived', now')
              /\ granted' = granted
    /\ connected => connectionId = granted.token

C19_FailedConnect == [][C19_Step]_vars

C19_Witness ==
    /\ ret.op = "Connect"
    /\ ret.re = "cur"
    /\ hdrAction(ret.dgram) = Connect
    /\ ret.err = "ErrUnexpectedEOF"
    /\ granted.any
    /\ connectionId = bootstrapConnectionId
    /\ connectionIdReceived = granted.at
    /\ ~connected

\* C20: the socket is open whenever a token was ever received and whenever
\* a call reads, and no call panics on an absent socket; a socket once
\* open stays, and net.Dial is called (and can fail) only while there is
\* none.
C20_Inv ==
    /\ (connectionIdReceived # ZeroTime) => socket = "open"
    /\ (pc = "read" \/ sent.any) => socket = "open"
    /\ ~(pc = "panic" /\ socket = "nil")

C20_Step ==
    /\ (socket = "open") => socket' = "open"
    /\ (pc' = "idle" /\ ret'.op = "Connect" /\ ret'.err = "dial")
           => (socket = "nil" /\ socket' = "nil")
    /\ (pc' = "idle" /\ ret'.op = "Announce") => socket' = socket

C20_SocketOpened == []C20_Inv /\ [][C20_Step]_vars

C20_Witness ==
    /\ pc = "read"
    /\ action = Announce
    /\ socket = "open"
    /\ sent.ConnectionId = granted.token
    /\ usedTids = TIDs

====
